---- MODULE Spec2Model ----
(***************************************************************************)
(* A model of the OCR pipeline of ocr_pdf.py and error_handlers.py:        *)
(* PdfOcr.process_file (validation, scoped temporary workspace,            *)
(* rasterization, per-page OCR, assembly, compression) and                 *)
(* PdfOcr.process_batch (per-document failure isolation), run over a small *)
(* file system.  The external capabilities (PyMuPDF, Tesseract, PyPDF2,    *)
(* the operating system) are nondeterministic: each call either delivers   *)
(* its result or raises.                                                   *)
(***************************************************************************)
EXTENDS Integers, Sequences, FiniteSets, TLC

(***************************************************************************)
(* Bounds of the model.                                                    *)
(***************************************************************************)
MaxPages == 2
MaxDocs == 3

(***************************************************************************)
(* Paths.  A path is a sequence of names, a name is a stem (a sequence of  *)
(* string pieces, so that the "_searchable" suffix can be appended) and an *)
(* extension.  The empty path is the current directory.                    *)
(***************************************************************************)
Name(s, e) == [stem |-> <<s>>, ext |-> e]

Root == <<>>

Parent(p) == IF p = Root THEN Root ELSE SubSeq(p, 1, Len(p) - 1)

Stem(p) == p[Len(p)].stem

Suffix(p) == p[Len(p)].ext

Join(dir, name) == Append(dir, name)

Lower(s) == IF s \in {".PDF", ".Pdf"} THEN ".pdf" ELSE s

SearchableName(p) == [stem |-> Append(Stem(p), "_searchable"), ext |-> ".pdf"]

None == [some |-> FALSE, path |-> Root]

Some(p) == [some |-> TRUE, path |-> p]

InDir == <<Name("in", "")>>
OutDir == <<Name("out", "")>>
DocA == Join(InDir, Name("a", ".pdf"))
DocB == Join(InDir, Name("b", ".PDF"))
DocC == Join(InDir, Name("c", ".txt"))
DocD == Join(InDir, Name("d", ".pdf"))
DocM == Join(InDir, Name("m", ".pdf"))
DocW == Join(InDir, Name("w", ".pdf"))
DocZ == Join(InDir, Name("z", ".pdf"))
OutX == Join(OutDir, Name("x", ".pdf"))
OutOld == Join(OutDir, Name("old", ".pdf"))
OutF == Join(OutDir, Name("f", ""))
OutUnderF == Join(OutF, Name("x", ".pdf"))
OutDeepUnderF == Join(Join(OutF, Name("sub", "")), Name("x", ".pdf"))
NewDir == <<Name("new", ""), Name("deep", "")>>
OutNew == Join(NewDir, Name("x", ".pdf"))

(***************************************************************************)
(* The file system: a function from the existing paths to their nodes.     *)
(***************************************************************************)
DirNode == [kind |-> "dir", pages |-> <<>>, state |-> "dir"]

FileNode(pages, state) == [kind |-> "file", pages |-> pages, state |-> state]

Exists(f, p) == p = Root \/ p \in DOMAIN f

IsDir(f, p) == p = Root \/ (p \in DOMAIN f /\ f[p].kind = "dir")

IsFile(f, p) == p \in DOMAIN f /\ f[p].kind = "file"

Put(f, p, node) == [q \in DOMAIN f \cup {p} |-> IF q = p THEN node ELSE f[q]]

RECURSIVE Makedirs(_, _)
Makedirs(f, p) ==
    IF IsDir(f, p) THEN [ok |-> TRUE, fs |-> f]
    ELSE IF Exists(f, p) THEN [ok |-> FALSE, fs |-> f]
    ELSE LET r == Makedirs(f, Parent(p))
         IN  IF r.ok THEN [ok |-> TRUE, fs |-> Put(r.fs, p, DirNode)] ELSE r

\* A source document of n pages.
Source(p, n) == FileNode([k \in 1..n |-> [doc |-> p, page |-> k - 1]], "source")

\* in/a.pdf has MaxPages pages, in/b.PDF and in/w.pdf one, in/z.pdf none;
\* in/c.txt is no PDF, in/d.pdf and in/w_searchable.pdf are directories,
\* in/m.pdf does not exist; out/old.pdf and out/f are files.
InitFs ==
    (InDir :> DirNode) @@ (OutDir :> DirNode)
    @@ (DocA :> Source(DocA, MaxPages)) @@ (DocB :> Source(DocB, 1))
    @@ (DocW :> Source(DocW, 1)) @@ (DocZ :> Source(DocZ, 0))
    @@ (DocC :> FileNode(<<>>, "text"))
    @@ (DocD :> DirNode)
    @@ (Join(InDir, SearchableName(DocW)) :> DirNode)
    @@ (OutOld :> FileNode(<<>>, "old"))
    @@ (OutF :> FileNode(<<>>, "old"))

Inputs == {DocA, DocB, DocC, DocD, DocM, DocW, DocZ}

Outputs == {None, Some(OutX), Some(OutOld), Some(DocD), Some(OutNew),
            Some(OutUnderF), Some(OutDeepUnderF)}

(***************************************************************************)
(* Exceptions.  A message is a sequence of parts: literal text or a path   *)
(* interpolated into it.                                                   *)
(***************************************************************************)
Lit(s) == [text |-> s, path |-> Root]

Ref(p) == [text |-> "", path |-> p]

Exc(type, msg) == [type |-> type, msg |-> msg]

NoExc == Exc("none", <<>>)

PdfOcrErrorTypes == {"PdfOcrError", "InputFileError", "TesseractError", "OutputError"}

IsPdfOcrError(e) == e.type \in PdfOcrErrorTypes

NamesPath(e, p) == \E k \in 1..Len(e.msg) : e.msg[k] = Ref(p)

(***************************************************************************)
(* error_handlers.py                                                       *)
(***************************************************************************)
verify_input_file_NoExistenceCheck(f, file_path) ==
    IF Exists(f, file_path) /\ Lower(Suffix(file_path)) # ".pdf"
    THEN Exc("InputFileError", <<Lit("Input file is not a PDF: "), Ref(file_path)>>)
    ELSE NoExc

verify_input_file(f, file_path) ==
    IF ~Exists(f, file_path)
    THEN Exc("InputFileError", <<Lit("Input file not found: "), Ref(file_path)>>)
    ELSE IF ~IsFile(f, file_path)
    THEN Exc("InputFileError", <<Lit("Input path is not a file: "), Ref(file_path)>>)
    ELSE IF Lower(Suffix(file_path)) # ".pdf"
    THEN Exc("InputFileError", <<Lit("Input file is not a PDF: "), Ref(file_path)>>)
    ELSE NoExc

verify_output_location_NoKindCheck(f, output_path, is_directory) ==
    LET mk == IF ~Exists(f, Parent(output_path))
              THEN Makedirs(f, Parent(output_path))
              ELSE [ok |-> TRUE, fs |-> f]
        cannot == Exc("OutputError", <<Lit("Cannot create output directory: "), Lit("OSError")>>)
    IN  IF ~mk.ok THEN [exc |-> cannot, fs |-> mk.fs]
        ELSE IF is_directory /\ ~Exists(mk.fs, output_path)
        THEN LET md == Makedirs(mk.fs, output_path)
             IN  [exc |-> IF md.ok THEN NoExc ELSE cannot, fs |-> md.fs]
        ELSE [exc |-> NoExc, fs |-> mk.fs]

verify_output_location(f, output_path, is_directory) ==
    LET mk == IF ~Exists(f, Parent(output_path))
              THEN Makedirs(f, Parent(output_path))
              ELSE [ok |-> TRUE, fs |-> f]
        cannot == Exc("OutputError", <<Lit("Cannot create output directory: "), Lit("OSError")>>)
    IN  IF ~mk.ok THEN [exc |-> cannot, fs |-> mk.fs]
        ELSE IF is_directory
        THEN IF Exists(mk.fs, output_path) /\ ~IsDir(mk.fs, output_path)
             THEN [exc |-> Exc("OutputError",
                               <<Lit("Output path exists but is not a directory: "),
                                 Ref(output_path)>>),
                   fs |-> mk.fs]
             ELSE LET md == Makedirs(mk.fs, output_path)
                  IN  [exc |-> IF md.ok THEN NoExc ELSE cannot, fs |-> md.fs]
        ELSE IF Exists(mk.fs, output_path) /\ ~IsFile(mk.fs, output_path)
        THEN [exc |-> Exc("OutputError",
                          <<Lit("Output path exists but is not a file: "),
                            Ref(output_path)>>),
              fs |-> mk.fs]
        ELSE [exc |-> NoExc, fs |-> mk.fs]


(***************************************************************************)
(* ocr_pdf.py: the processor, and the clauses that handle exceptions.      *)
(***************************************************************************)
Min(a, b) == IF a < b THEN a ELSE b

OcrDpiCap == 200

DpiValues == {150, 300}

PdfOcr_init_NoCap(dpi, language, optimize_size) ==
    [dpi |-> dpi, language |-> language, optimize_size |-> optimize_size, ocr_dpi |-> dpi]

PdfOcr_init(dpi, language, optimize_size) ==
    [dpi |-> dpi, language |-> language, optimize_size |-> optimize_size,
     ocr_dpi |-> IF optimize_size THEN Min(dpi, OcrDpiCap) ELSE dpi]

DefaultOutput(input_path) == Join(Parent(input_path), SearchableName(input_path))

BatchOutput(output_dir, input_path) == Join(output_dir, SearchableName(input_path))

process_file_except(e, input_path) ==
    IF ~IsPdfOcrError(e)
    THEN Exc("PdfOcrError",
             <<Lit("Error processing file "), Ref(input_path), Lit(": ")>> \o e.msg)
    ELSE e

convert_except(e) ==
    Exc("PdfOcrError", <<Lit("Failed to convert PDF to images: ")>> \o e.msg)

ocr_except(e) ==
    Exc("TesseractError", <<Lit("OCR processing failed: ")>> \o e.msg)

compress_except_Propagate(e) == e

compress_except(e) == NoExc

BatchCatches_InputOnly(e) == e.type = "InputFileError"

BatchCatches_Exception(e) == e # NoExc

BatchCatches(e) == IsPdfOcrError(e)

TemporaryDirectoryExit_Leak(ws, id) == ws

TemporaryDirectoryExit(ws, id) == [k \in DOMAIN ws \ {id} |-> ws[k]]

WriterAppend_Prepend(writer, pages) == pages \o writer

WriterAppend(writer, pages) == writer \o pages

AfterAppend_Early(i, n) == "write"

AfterAppend(i, n) == IF i + 1 < n THEN "ocr" ELSE "write"

AfterWrite(optimize_size) == IF optimize_size THEN "compress" ELSE "exit"

(***************************************************************************)
(* What the external libraries raise: a fault on a file names the file, as *)
(* the messages of the operating system and of fitz.open do; a fault on a  *)
(* page carries only its own text.                                         *)
(***************************************************************************)
LibFault(what) == Exc("RuntimeError", <<Lit(what)>>)

OsFault(what, p) == Exc("OSError", <<Lit(what), Ref(p)>>)

(***************************************************************************)
(* State.                                                                  *)
(***************************************************************************)
VARIABLES self, fs, workspaces, tmp_count, top, batch, run, hist

vars == <<self, fs, workspaces, tmp_count, top, batch, run, hist>>

NoFault == [stage |-> "none", page |-> 0, exc |-> NoExc]

NoResult == [value |-> Root, exc |-> NoExc]

IdleRun ==
    [pc |-> "none", input_path |-> Root, output_arg |-> None, output_path |-> Root,
     temp_dir |-> 0, num_pages |-> 0, mat |-> 0, images |-> <<>>, i |-> 0,
     pdf_writer |-> <<>>, renders |-> <<>>, ocr_result |-> <<>>, warnings |-> {},
     written |-> FALSE, compress |-> "none", fault |-> NoFault, result |-> NoResult,
     fs0 |-> <<>>, tmp0 |-> 0]

NewRun(input_path, output_arg) ==
    [IdleRun EXCEPT !.pc = "verify_input", !.input_path = input_path,
                    !.output_arg = output_arg, !.fs0 = fs, !.tmp0 = tmp_count]

IdleBatch ==
    [pc |-> "none", input_paths |-> <<>>, output_dir |-> None, idx |-> 1,
     output_paths |-> <<>>, errors |-> <<>>, exc |-> NoExc]

EmptyWorkspace == [images |-> {}, pagedocs |-> <<>>]

NoExit == -1

\* The program around the processor: who called it, the exception that
\* reached the caller and the exit code of the command line, and the state of the graphical front-end (where sys.stdout
\* points, the processing thread, the callbacks queued with root.after, and
\* the widget calls made so far, each with the thread that made it).
IdleTop ==
    [caller |-> "idle", exc |-> NoExc, exit_code |-> NoExit, stdout |-> "console",
     thread |-> "none", after |-> <<>>, widget_calls |-> {}]

WidgetCall(thread, widget) == [thread |-> thread, widget |-> widget]

\* The thread the processor runs in: under the graphical front-end it is the
\* processing thread.
PipelineThread(t) == IF t.caller = "gui" THEN "worker" ELSE "main"

\* TextRedirector.write: the text widget is written by the thread that prints.
TextRedirector_write(t) ==
    [t EXCEPT !.widget_calls = @ \cup {WidgetCall(PipelineThread(t), "log_text")}]

\* print, and the progress bar of tqdm, write to sys.stdout and sys.stderr.
WriteStdout(t) == IF t.stdout = "log_text" THEN TextRedirector_write(t) ELSE t

Init ==
    /\ \E dpi \in DpiValues, optimize_size \in BOOLEAN :
           self = PdfOcr_init(dpi, "eng", optimize_size)
    /\ fs = InitFs
    /\ workspaces = <<>>
    /\ tmp_count = 0
    /\ top = IdleTop
    /\ batch = IdleBatch
    /\ run = IdleRun
    /\ hist = <<>>

(***************************************************************************)
(* The ways a process_file run ends.                                       *)
(***************************************************************************)
HistEntry(r) ==
    [input |-> r.input_path, raised |-> r.result.exc # NoExc,
     value |-> r.result.value, exc |-> r.result.exc]

Ended(r) ==
    /\ run' = r
    /\ hist' = Append(hist, HistEntry(r))

\* An exception raised before the try statement leaves process_file as it is.
RaiseOutside(e) ==
    Ended([run EXCEPT !.pc = "raised", !.result = [value |-> Root, exc |-> e]])

\* An exception raised inside the with statement: the workspace is removed on
\* the way out, and the except clause of process_file re-raises it.  cause is
\* what the library raised, thrown is what reaches the except clause.
RaiseInside(stage, page, cause, thrown) ==
    /\ workspaces' = TemporaryDirectoryExit(workspaces, run.temp_dir)
    /\ Ended([run EXCEPT !.pc = "raised",
                         !.fault = [stage |-> stage, page |-> page, exc |-> cause],
                         !.result = [value |-> Root,
                                     exc |-> process_file_except(thrown, run.input_path)]])

(***************************************************************************)
(* PdfOcr.process_file                                                     *)
(***************************************************************************)
CallProcessFile ==
    /\ top.caller = "idle"
    /\ \E input_path \in Inputs, output_arg \in Outputs :
           run' = NewRun(input_path, output_arg)
    /\ top' = [top EXCEPT !.caller = "process_file"]
    /\ UNCHANGED <<self, fs, workspaces, tmp_count, batch, hist>>

VerifyInput ==
    /\ run.pc = "verify_input"
    /\ LET e == verify_input_file(fs, run.input_path)
       IN  IF e # NoExc
           THEN RaiseOutside(e)
           ELSE /\ run' = [run EXCEPT !.pc = "verify_output",
                               !.output_path = IF run.output_arg.some
                                               THEN run.output_arg.path
                                               ELSE DefaultOutput(run.input_path)]
                /\ UNCHANGED hist
    /\ UNCHANGED <<self, fs, workspaces, tmp_count, top, batch>>

VerifyOutput ==
    /\ run.pc = "verify_output"
    /\ LET r == verify_output_location(fs, run.output_path, FALSE)
       IN  /\ fs' = r.fs
           /\ IF r.exc # NoExc
              THEN RaiseOutside(r.exc)
              ELSE /\ run' = [run EXCEPT !.pc = "mktemp"]
                   /\ UNCHANGED hist
    /\ top' = IF run'.pc = "mktemp" THEN WriteStdout(top) ELSE top
    /\ UNCHANGED <<self, workspaces, tmp_count, batch>>

EnterWorkspace_OpenOutput ==
    /\ run.pc = "mktemp"
    /\ tmp_count' = tmp_count + 1
    /\ workspaces' = (tmp_count + 1 :> EmptyWorkspace) @@ workspaces
    /\ fs' = Put(fs, run.output_path, FileNode(<<>>, "partial"))
    /\ run' = [run EXCEPT !.pc = "open", !.temp_dir = tmp_count + 1]
    /\ top' = WriteStdout(top)
    /\ UNCHANGED <<self, batch, hist>>

\* with tempfile.TemporaryDirectory() as temp_dir (line 73).
EnterWorkspace ==
    /\ run.pc = "mktemp"
    /\ tmp_count' = tmp_count + 1
    /\ workspaces' = (tmp_count + 1 :> EmptyWorkspace) @@ workspaces
    /\ run' = [run EXCEPT !.pc = "open", !.temp_dir = tmp_count + 1]
    /\ top' = WriteStdout(top)
    /\ UNCHANGED <<self, fs, batch, hist>>

\* _convert_pdf_to_images: fitz.open and the zoom matrix.
OpenDocument ==
    /\ run.pc = "open"
    /\ \/ /\ run' = [run EXCEPT !.pc = "render",
                                !.num_pages = Len(fs[run.input_path].pages),
                                !.mat = self.ocr_dpi]
          /\ UNCHANGED <<workspaces, hist>>
       \/ LET cause == OsFault("cannot open file ", run.input_path)
          IN  RaiseInside("rasterizer", 0, cause, convert_except(cause))
    /\ UNCHANGED <<self, fs, tmp_count, top, batch>>

\* One iteration of the page loop of _convert_pdf_to_images.
RenderPage ==
    /\ run.pc = "render"
    /\ Len(run.images) < run.num_pages
    /\ LET page_num == Len(run.images)
           ws == workspaces[run.temp_dir]
           saved == [workspaces EXCEPT
                        ![run.temp_dir].images = ws.images \cup {page_num}]
       IN  \/ /\ workspaces' = saved
              /\ run' = [run EXCEPT
                            !.images = Append(@, page_num),
                            !.renders = Append(@, [page |-> page_num, dpi |-> run.mat])]
              /\ UNCHANGED hist
           \/ \E cause \in {LibFault("cannot render page"),
                            LibFault("cannot encode image")} :
                  RaiseInside("rasterizer", page_num, cause, convert_except(cause))
    /\ UNCHANGED <<self, fs, tmp_count, top, batch>>

\* The page loop is over: the document is closed and the image paths returned.
FinishRasterize ==
    /\ run.pc = "render"
    /\ Len(run.images) = run.num_pages
    /\ run' = [run EXCEPT !.pc = IF Len(run.images) > 0 THEN "ocr" ELSE "write"]
    /\ top' = WriteStdout(top)
    /\ UNCHANGED <<self, fs, workspaces, tmp_count, batch, hist>>

\* _ocr_page on image i: the engine returns a document of one page, or of none.
OcrPage ==
    /\ run.pc = "ocr"
    /\ \/ /\ \E n \in 0..1 :
                 /\ workspaces' = [workspaces EXCEPT ![run.temp_dir].pagedocs =
                                       Append(@, [page |-> run.images[run.i + 1], pages |-> n])]
                 /\ run' = [run EXCEPT !.pc = "append", !.ocr_result = Append(@, n)]
          /\ UNCHANGED hist
       \/ LET cause == LibFault("tesseract failed")
          IN  RaiseInside("ocr", run.images[run.i + 1], cause, ocr_except(cause))
    /\ UNCHANGED <<self, fs, tmp_count, top, batch>>

\* The page document is read back and appended to the writer (lines 88-92).
AppendPage ==
    /\ run.pc = "append"
    /\ LET doc == workspaces[run.temp_dir].pagedocs[run.i + 1]
           pages == [k \in 1..doc.pages |-> [doc |-> run.input_path, page |-> doc.page]]
       IN  \/ /\ run' = [run EXCEPT
                            !.pdf_writer = IF Len(pages) > 0
                                           THEN WriterAppend(@, pages) ELSE @,
                            !.warnings = IF Len(pages) > 0
                                         THEN @ ELSE @ \cup {run.i + 1},
                            !.i = @ + 1,
                            !.pc = AfterAppend(run.i, Len(run.images))]
              /\ UNCHANGED <<workspaces, hist>>
           \/ LET cause == LibFault("cannot read page document")
              IN  RaiseInside("assembler", doc.page, cause, cause)
    /\ top' = WriteStdout(top)
    /\ UNCHANGED <<self, fs, tmp_count, batch>>

CanOpenForWrite(f, p) == IsDir(f, Parent(p)) /\ ~IsDir(f, p)

\* The composite is serialized to the output path (lines 95-96).
WriteOutput ==
    /\ run.pc = "write"
    /\ \/ /\ CanOpenForWrite(fs, run.output_path)
          /\ fs' = Put(fs, run.output_path, FileNode(run.pdf_writer, "assembled"))
          /\ run' = [run EXCEPT !.pc = AfterWrite(self.optimize_size), !.written = TRUE]
          /\ UNCHANGED <<workspaces, hist>>
       \/ /\ CanOpenForWrite(fs, run.output_path)
          /\ fs' = Put(fs, run.output_path, FileNode(<<>>, "partial"))
          /\ LET cause == OsFault("cannot write ", run.output_path)
             IN  RaiseInside("assembler", 0, cause, cause)
       \/ /\ fs' = fs
          /\ LET cause == OsFault("cannot open ", run.output_path)
             IN  RaiseInside("assembler", 0, cause, cause)
    /\ UNCHANGED <<self, tmp_count, top, batch>>

\* _compress_pdf: the document is saved over itself; a failure is only printed.
CompressPdf ==
    /\ run.pc = "compress"
    /\ \/ /\ fs' = Put(fs, run.output_path, FileNode(fs[run.output_path].pages, "compressed"))
          /\ run' = [run EXCEPT !.pc = "exit", !.compress = "done"]
          /\ UNCHANGED <<workspaces, hist>>
       \/ LET cause == LibFault("cannot save document")
              e == compress_except(cause)
          IN  /\ fs' = fs
              /\ IF e = NoExc
                 THEN /\ run' = [run EXCEPT !.pc = "exit", !.compress = "failed"]
                      /\ UNCHANGED <<workspaces, hist>>
                 ELSE RaiseInside("compressor", 0, cause, e)
    /\ top' = WriteStdout(top)
    /\ UNCHANGED <<self, tmp_count, batch>>

\* The with statement is left, and the output path returned (lines 101-103).
ReturnOutput ==
    /\ run.pc = "exit"
    /\ workspaces' = TemporaryDirectoryExit(workspaces, run.temp_dir)
    /\ Ended([run EXCEPT !.pc = "returned",
                         !.result = [value |-> run.output_path, exc |-> NoExc]])
    /\ top' = WriteStdout(top)
    /\ UNCHANGED <<self, fs, tmp_count, batch>>

(***************************************************************************)
(* PdfOcr.process_batch                                                    *)
(***************************************************************************)
BatchInputs == {DocB, DocM}

BatchDirs == {None, Some(OutDir), Some(NewDir), Some(OutF)}

InputLists == UNION {[1..n -> BatchInputs] : n \in 0..MaxDocs}

CallProcessBatch ==
    /\ top.caller = "idle"
    /\ \E input_paths \in InputLists, output_dir \in BatchDirs :
           batch' = [IdleBatch EXCEPT !.pc = "verify", !.input_paths = input_paths,
                                      !.output_dir = output_dir]
    /\ top' = [top EXCEPT !.caller = "process_batch"]
    /\ UNCHANGED <<self, fs, workspaces, tmp_count, run, hist>>

\* Lines 122-127.
BatchVerify ==
    /\ batch.pc = "verify"
    /\ IF batch.output_dir.some
       THEN LET r == verify_output_location(fs, batch.output_dir.path, TRUE)
            IN  /\ fs' = r.fs
                /\ batch' = IF r.exc # NoExc
                            THEN [batch EXCEPT !.pc = "raised", !.exc = r.exc]
                            ELSE [batch EXCEPT !.pc = "loop"]
       ELSE /\ fs' = fs
            /\ batch' = [batch EXCEPT !.pc = "loop"]
    /\ UNCHANGED <<self, workspaces, tmp_count, top, run, hist>>

\* Lines 129-138: the next document is handed to process_file.
BatchIterate ==
    /\ batch.pc = "loop"
    /\ batch.idx <= Len(batch.input_paths)
    /\ LET input_path == batch.input_paths[batch.idx]
           output_path == IF batch.output_dir.some
                          THEN Some(BatchOutput(batch.output_dir.path, input_path))
                          ELSE None
       IN  run' = NewRun(input_path, output_path)
    /\ batch' = [batch EXCEPT !.pc = "wait"]
    /\ UNCHANGED <<self, fs, workspaces, tmp_count, top, hist>>

\* Lines 138-144: process_file has returned or raised.
BatchCollect ==
    /\ batch.pc = "wait"
    /\ run.pc \in {"returned", "raised"}
    /\ batch' = IF run.pc = "returned"
                THEN [batch EXCEPT !.output_paths = Append(@, run.result.value),
                                   !.idx = @ + 1, !.pc = "loop"]
                ELSE IF BatchCatches(run.result.exc)
                THEN [batch EXCEPT !.errors = Append(@, run.result.exc.msg),
                                   !.idx = @ + 1, !.pc = "loop"]
                ELSE [batch EXCEPT !.pc = "raised", !.exc = run.result.exc]
    /\ run' = IdleRun
    /\ top' = IF Len(batch'.errors) > Len(batch.errors) THEN WriteStdout(top) ELSE top
    /\ UNCHANGED <<self, fs, workspaces, tmp_count, hist>>

\* Lines 146-155: the summary is printed and the output paths returned.
BatchSummary ==
    /\ batch.pc = "loop"
    /\ batch.idx > Len(batch.input_paths)
    /\ batch' = [batch EXCEPT !.pc = "returned"]
    /\ top' = IF batch.output_paths # <<>> \/ batch.errors # <<>> THEN WriteStdout(top) ELSE top
    /\ UNCHANGED <<self, fs, workspaces, tmp_count, run, hist>>

Next ==
    \/ CallProcessFile
    \/ VerifyInput
    \/ VerifyOutput
    \/ EnterWorkspace
    \/ OpenDocument
    \/ RenderPage
    \/ FinishRasterize
    \/ OcrPage
    \/ AppendPage
    \/ WriteOutput
    \/ CompressPdf
    \/ ReturnOutput
    \/ CallProcessBatch
    \/ BatchVerify
    \/ BatchIterate
    \/ BatchCollect
    \/ BatchSummary

Spec == Init /\ [][Next]_vars

(***************************************************************************)
(* Exceptions that are no PdfOcrError.  Inside the try statement of        *)
(* process_file every Exception is converted (lines 105-109); what can     *)
(* leave a run unconverted is an exception raised before the try           *)
(* statement, or a KeyboardInterrupt, which is no Exception.               *)
(***************************************************************************)
KeyboardInterrupt == Exc("KeyboardInterrupt", <<>>)

\* Lines 57-69 stand before the try statement: an OSError raised there, by a
\* query of the file system or by print, leaves process_file as it is.
UnexpectedFault ==
    /\ run.pc \in {"verify_input", "verify_output"}
    /\ RaiseOutside(OsFault("permission denied ", run.input_path))
    /\ UNCHANGED <<self, fs, workspaces, tmp_count, top, batch>>

\* The user interrupts a run: no except clause of process_file catches the
\* KeyboardInterrupt, and the with statement removes the workspace, if any.
Interrupt ==
    /\ run.pc \notin {"none", "returned", "raised"}
    /\ workspaces' = TemporaryDirectoryExit(workspaces, run.temp_dir)
    /\ Ended([run EXCEPT !.pc = "raised",
                         !.fault = [stage |-> "interrupt", page |-> 0,
                                    exc |-> KeyboardInterrupt],
                         !.result = [value |-> Root, exc |-> KeyboardInterrupt]])
    /\ UNCHANGED <<self, fs, tmp_count, top, batch>>

NextEnv ==
    \/ Next
    \/ UnexpectedFault
    \/ Interrupt

SpecEnv == Init /\ [][NextEnv]_vars

(***************************************************************************)
(* The steps of process_file and of process_batch, whoever the caller is.  *)
(***************************************************************************)
Pipeline ==
    \/ VerifyInput
    \/ VerifyOutput
    \/ EnterWorkspace
    \/ OpenDocument
    \/ RenderPage
    \/ FinishRasterize
    \/ OcrPage
    \/ AppendPage
    \/ WriteOutput
    \/ CompressPdf
    \/ ReturnOutput
    \/ BatchVerify
    \/ BatchIterate
    \/ BatchCollect
    \/ BatchSummary

(***************************************************************************)
(* The command line: main of ocr_pdf.py.                                   *)
(***************************************************************************)
CliInputs == {<<p>> : p \in Inputs} \cup {l \in InputLists : Len(l) >= 2}

CliOutputs == Outputs \cup BatchDirs

\* The except clauses of main (lines 286-295); 0 when main runs to its end.
ExitCode(e) ==
    IF e = NoExc THEN 0
    ELSE IF IsPdfOcrError(e) THEN 1
    ELSE IF e = KeyboardInterrupt THEN 2
    ELSE 3

SysExit(e) == [top EXCEPT !.caller = "main", !.exc = e, !.exit_code = ExitCode(e)]

MissingTesseract == Exc("TesseractError", <<Lit("Tesseract OCR not found")>>)

MultipleNeedDirectory ==
    Exc("OutputError", <<Lit("When processing multiple files, output must be a directory")>>)

\* Lines 263-284: the arguments are parsed, the processor is built, and one
\* file or a batch is handed to it.
Main ==
    /\ top.caller = "idle"
    /\ \/ /\ top' = SysExit(MissingTesseract)
          /\ UNCHANGED <<run, batch>>
       \/ \E input \in CliInputs, output \in CliOutputs :
              IF Len(input) = 1
              THEN /\ run' = NewRun(input[1], output)
                   /\ top' = [top EXCEPT !.caller = "main"]
                   /\ UNCHANGED batch
              ELSE IF output.some /\ ~IsDir(fs, output.path)
              THEN /\ top' = SysExit(MultipleNeedDirectory)
                   /\ UNCHANGED <<run, batch>>
              ELSE /\ batch' = [IdleBatch EXCEPT !.pc = "verify", !.input_paths = input,
                                                 !.output_dir = output]
                   /\ top' = [top EXCEPT !.caller = "main"]
                   /\ UNCHANGED run
    /\ UNCHANGED <<self, fs, workspaces, tmp_count, hist>>

\* Lines 278-295: the call of the processor has returned or raised.
MainExit ==
    /\ top.caller = "main"
    /\ top.exit_code = NoExit
    /\ \/ /\ batch.pc = "none"
          /\ run.pc \in {"returned", "raised"}
          /\ top' = SysExit(run.result.exc)
       \/ /\ batch.pc \in {"returned", "raised"}
          /\ top' = SysExit(batch.exc)
    /\ UNCHANGED <<self, fs, workspaces, tmp_count, batch, run, hist>>

NextCli ==
    \/ Main
    \/ Pipeline
    \/ UnexpectedFault
    \/ Interrupt
    \/ MainExit

SpecCli == Init /\ [][NextCli]_vars

(***************************************************************************)
(* The graphical front-end: ocr_gui.py.  The main loop runs the handlers   *)
(* and the callbacks queued with root.after; the processing thread runs    *)
(* _process_thread, and in it the steps of process_batch.                  *)
(***************************************************************************)
GuiInputs == {l \in InputLists : Len(l) >= 1}

MainLoopCalls(t, widgets) ==
    [t EXCEPT !.widget_calls = @ \cup {WidgetCall("main", w) : w \in widgets}]

\* process_files, the handler of the start button (lines 193-231).
ProcessFiles ==
    /\ top.caller = "idle"
    /\ \/ /\ top' = MainLoopCalls(top, {"messagebox"})
          /\ UNCHANGED batch
       \/ /\ \E files \in GuiInputs, output_dir \in BatchDirs :
                 batch' = [IdleBatch EXCEPT !.pc = "thread", !.input_paths = files,
                                            !.output_dir = output_dir]
          /\ top' = [MainLoopCalls(top, {"controls", "progress_bar", "log_text"})
                        EXCEPT !.caller = "gui", !.stdout = "log_text",
                               !.thread = "alive"]
    /\ UNCHANGED <<self, fs, workspaces, tmp_count, run, hist>>

\* _process_thread, lines 233-246: the dependencies are verified, the
\* processor is built and process_batch is called.
ThreadStart ==
    /\ top.thread = "alive"
    /\ batch.pc = "thread"
    /\ \/ batch' = [batch EXCEPT !.pc = "verify"]
       \/ batch' = [batch EXCEPT !.pc = "raised", !.exc = MissingTesseract]
    /\ UNCHANGED <<self, fs, workspaces, tmp_count, top, run, hist>>

MessageBox(e) ==
    IF e = NoExc THEN "showinfo"
    ELSE IF IsPdfOcrError(e) THEN "showerror Error"
    ELSE "showerror Unexpected Error"

\* _process_thread, lines 246-254: the message box of the result is queued
\* for the main loop with root.after, and the thread ends.
ThreadFinish ==
    /\ top.thread = "alive"
    /\ batch.pc \in {"returned", "raised"}
    /\ top' = [top EXCEPT !.thread = "dead", !.exc = batch.exc,
                          !.after = Append(@, MessageBox(batch.exc))]
    /\ UNCHANGED <<self, fs, workspaces, tmp_count, batch, run, hist>>

\* The main loop runs a callback queued with root.after.
RunCallback ==
    /\ top.after # <<>>
    /\ top' = [MainLoopCalls(top, {"messagebox"}) EXCEPT !.after = Tail(@)]
    /\ UNCHANGED <<self, fs, workspaces, tmp_count, batch, run, hist>>

\* check_processing_thread, polled by the main loop every 100 ms (lines
\* 256-271): once the thread is dead the streams and the controls are restored.
CheckProcessingThread ==
    /\ top.caller = "gui"
    /\ \/ /\ top.thread = "alive"
          /\ UNCHANGED top
       \/ /\ top.thread = "dead"
          /\ top' = [MainLoopCalls(top, {"controls", "progress_bar"})
                        EXCEPT !.caller = "gui done", !.stdout = "console",
                               !.thread = "none"]
    /\ UNCHANGED <<self, fs, workspaces, tmp_count, batch, run, hist>>

NextGui ==
    \/ ProcessFiles
    \/ ThreadStart
    \/ Pipeline
    \/ UnexpectedFault
    \/ ThreadFinish
    \/ RunCallback
    \/ CheckProcessingThread

SpecGui == Init /\ [][NextGui]_vars


(***************************************************************************)
(* Properties.                                                             *)
(***************************************************************************)
Succeeded(h) == SelectSeq(h, LAMBDA x : ~x.raised)

Failed(h) == SelectSeq(h, LAMBDA x : x.raised)

Empties(r) == {k \in 1..Len(r.ocr_result) : r.ocr_result[k] = 0}

\* C2: when a run on a valid N-page input succeeds, the output document holds
\* exactly the pages whose recognition result is not empty, in increasing
\* page index, none twice: N minus the number of empty results; each empty
\* page is skipped with a warning and does not fail the run.
C2_OutputPages ==
    run.pc = "returned" =>
        LET source == run.fs0[run.input_path].pages
            out == fs[run.output_path]
        IN  /\ run.num_pages = Len(source)
            /\ Len(run.ocr_result) = Len(source)
            /\ out.kind = "file"
            /\ out.pages = SelectSeq(source, LAMBDA pg : run.ocr_result[pg.page + 1] > 0)
            /\ Len(out.pages) = Len(source) - Cardinality(Empties(run))
            /\ run.warnings = Empties(run)

\* A run on the document of MaxPages pages has returned with an empty page
\* skipped and another page in the output.
C2_Witness ==
    /\ run.pc = "returned"
    /\ run.num_pages = MaxPages
    /\ Empties(run) # {}
    /\ fs[run.output_path].pages # <<>>

PdfSuffixes == {".pdf", ".PDF", ".Pdf"}

InvalidInput(f, p) == ~Exists(f, p) \/ ~IsFile(f, p) \/ Suffix(p) \notin PdfSuffixes

\* C3: for an input path that does not exist, is no regular file or has no
\* .pdf extension (in any letter case), process_file raises an input error
\* and has written nothing: no directory made, no workspace, no output file.
C3_InvalidInputNoWrites ==
    run.pc # "none" /\ InvalidInput(run.fs0, run.input_path) =>
        \/ run.pc = "verify_input" /\ fs = run.fs0
        \/ /\ run.pc = "raised"
           /\ run.result.exc.type = "InputFileError"
           /\ fs = run.fs0
           /\ tmp_count = run.tmp0
           /\ run.temp_dir = 0
           /\ DOMAIN workspaces = {}

\* The missing input was given with an output whose parent directory is
\* missing too, and the run has raised.
C3_Witness ==
    /\ run.pc = "raised"
    /\ run.input_path = DocM
    /\ run.output_arg = Some(OutNew)
    /\ run.result.exc.type = "InputFileError"

ArgOutput(r) == IF r.output_arg.some THEN r.output_arg.path ELSE DefaultOutput(r.input_path)

WrongKindForFile(f, p) == Exists(f, p) /\ ~IsFile(f, p)

WrongKindForDir(f, p) == Exists(f, p) /\ ~IsDir(f, p)

OutputErrorBeforeRasterization(r) ==
    /\ r.pc = "raised"
    /\ r.result.exc.type = "OutputError"
    /\ r.temp_dir = 0
    /\ tmp_count = r.tmp0
    /\ r.renders = <<>>

BatchOutputErrorBeforeRasterization ==
    batch.pc \notin {"none", "verify"} /\ batch.output_dir.some
    /\ WrongKindForDir(InitFs, batch.output_dir.path) =>
        /\ batch.pc = "raised"
        /\ batch.exc.type = "OutputError"
        /\ hist = <<>>
        /\ tmp_count = 0
        /\ run = IdleRun

\* C4 as claimed: for any output path that exists and is of the wrong kind
\* an output error is raised before the workspace is created and before
\* any page is rendered.
C4_Original ==
    /\ run.pc \notin {"none", "verify_input", "verify_output"}
       /\ WrongKindForFile(run.fs0, ArgOutput(run)) => OutputErrorBeforeRasterization(run)
    /\ BatchOutputErrorBeforeRasterization

\* C4: for a valid input document and an output path that exists and is of
\* the wrong kind, process_file raises an output error before the workspace
\* is created and before any page is rendered; process_batch does so for an
\* output directory that exists as a file, before any document is run.
C4_OutputErrorFirst ==
    /\ run.pc \notin {"none", "verify_input", "verify_output"}
       /\ ~InvalidInput(run.fs0, run.input_path)
       /\ WrongKindForFile(run.fs0, ArgOutput(run)) => OutputErrorBeforeRasterization(run)
    /\ BatchOutputErrorBeforeRasterization

\* A valid document whose default output path is a directory has been refused.
C4_Witness ==
    /\ run.pc = "raised"
    /\ run.input_path = DocW
    /\ ~run.output_arg.some
    /\ WrongKindForFile(run.fs0, run.output_path)
    /\ run.result.exc.type = "OutputError"

\* C5: whenever process_file has returned or raised, no temporary workspace
\* (nor any page image or page document in one) exists any more; in a batch
\* none exists while the next document is started and validated.
C5_WorkspaceReleased ==
    run.pc \in {"none", "verify_input", "verify_output", "mktemp", "returned", "raised"}
        => DOMAIN workspaces = {}

\* In a batch the first document failed in OCR, inside its workspace, and
\* the second document is being started.
C5_Witness ==
    /\ batch.pc = "wait"
    /\ run.pc = "verify_input"
    /\ Len(hist) = 1
    /\ hist[1].exc.type = "TesseractError"
    /\ tmp_count = 1
    /\ DOMAIN workspaces = {}


Wraps(e, cause) ==
    /\ Len(e.msg) > Len(cause.msg)
    /\ SubSeq(e.msg, Len(e.msg) - Len(cause.msg) + 1, Len(e.msg)) = cause.msg

\* C6 as claimed: an exception raised by the rasterizer, the page OCR unit or
\* the assembler leaves process_file as a PdfOcrError: either an input,
\* output or recognition error passed through unchanged, or the generic
\* error, which names the input file and wraps the original cause.
C6_Original ==
    run.pc = "raised" /\ run.fault.stage \in {"rasterizer", "ocr", "assembler"} =>
        LET e == run.result.exc
        IN  /\ IsPdfOcrError(e)
            /\ \/ e.type \in {"InputFileError", "OutputError", "TesseractError"}
               \/ /\ e.type = "PdfOcrError"
                  /\ NamesPath(e, run.input_path)
                  /\ Wraps(e, run.fault.exc)

PageFaults == {LibFault("cannot render page"), LibFault("cannot encode image")}

OutputUntouched(r) ==
    /\ r.output_path \in DOMAIN fs <=> r.output_path \in DOMAIN r.fs0
    /\ r.output_path \in DOMAIN fs => fs[r.output_path] = r.fs0[r.output_path]

\* C7 as claimed: a rendering or encoding fault on a page aborts the whole
\* document (no OCR, no output assembled) and reaches the caller as a single
\* PdfOcrError whose message names the input file.
C7_Original ==
    run.pc = "raised" /\ run.fault.stage = "rasterizer" /\ run.fault.exc \in PageFaults =>
        /\ run.result.exc.type = "PdfOcrError"
        /\ NamesPath(run.result.exc, run.input_path)
        /\ run.ocr_result = <<>>
        /\ run.pdf_writer = <<>>
        /\ ~run.written
        /\ OutputUntouched(run)

CompressionFailed(r) == r.compress = "failed" \/ r.fault.stage = "compressor"

\* C8: when compression fails after the output was written, nothing is
\* raised: process_file goes on to return the output path, and the output
\* document is still the one assembly wrote, with the same pages.
C8_CompressionAdvisory ==
    CompressionFailed(run) =>
        /\ run.pc \in {"exit", "returned"}
        /\ run.written
        /\ IsFile(fs, run.output_path)
        /\ fs[run.output_path] = FileNode(run.pdf_writer, "assembled")
        /\ run.pc = "returned" =>
              run.result = [value |-> run.output_path, exc |-> NoExc]

\* A run whose compression failed has returned an output of at least a page.
C8_Witness ==
    /\ run.pc = "returned"
    /\ run.compress = "failed"
    /\ fs[run.output_path].pages # <<>>

EffectiveDpi == IF self.optimize_size
                THEN (IF self.dpi <= 200 THEN self.dpi ELSE 200)
                ELSE self.dpi

DpiInUse ==
    /\ self.ocr_dpi = EffectiveDpi
    /\ run.num_pages > 0 => run.mat = EffectiveDpi
    /\ \A k \in 1..Len(run.renders) : run.renders[k].dpi = EffectiveDpi

\* C9: the resolution pages are rasterized at is min(resolution, 200) with
\* optimize_size and the resolution itself without; the processor keeps it
\* from construction on, and every page of every document is rendered at it.
C9_EffectiveResolution == [] DpiInUse /\ [][self' = self]_vars

\* With resolution 300 and optimization the second document of a batch has
\* a page rendered at 200.
C9_Witness ==
    /\ self.dpi = 300
    /\ self.optimize_size
    /\ Len(hist) = 1
    /\ ~hist[1].raised
    /\ run.renders # <<>>
    /\ run.renders[1].dpi = 200

OcrAfterRasterization(r) ==
    r.ocr_result # <<>> \/ r.fault.stage = "ocr" =>
        /\ Len(r.renders) = r.num_pages
        /\ Len(r.images) = r.num_pages

WriteAfterOcr(r) ==
    r.written \/ (r.fault.stage = "assembler" /\ r.fault.exc.type = "OSError") =>
        /\ Len(r.ocr_result) = r.num_pages
        /\ r.i = r.num_pages

CompressionLast(r) ==
    /\ r.compress # "none" \/ r.fault.stage = "compressor" => r.written /\ self.optimize_size
    /\ r.pc = "returned" /\ self.optimize_size => r.compress # "none"
    /\ r.written /\ ~self.optimize_size => fs[r.output_path].state = "assembled"

\* C10 as claimed: rasterization, OCR, assembly and compression follow one
\* another, and no page is added to the composite writer before the OCR of
\* the last page has completed.
C10_Original ==
    /\ OcrAfterRasterization(run)
    /\ run.pdf_writer # <<>> => Len(run.ocr_result) = run.num_pages
    /\ WriteAfterOcr(run)
    /\ CompressionLast(run)

\* C10: no OCR starts before the last page is rasterized; a page is added to
\* the composite writer only after its own OCR has completed (pages are
\* added one by one inside the OCR loop); the composite is written to the
\* output path only after the OCR of every page; compression runs after
\* the write, and only when optimize_size is enabled.
C10_StageOrder ==
    /\ OcrAfterRasterization(run)
    /\ \A k \in 1..Len(run.pdf_writer) : run.pdf_writer[k].page + 1 <= Len(run.ocr_result)
    /\ Len(run.pdf_writer) <= run.i
    /\ WriteAfterOcr(run)
    /\ CompressionLast(run)

\* The first page is already in the composite writer while a later page has
\* not been through OCR yet.
C10_Witness ==
    /\ run.pc = "ocr"
    /\ Len(run.pdf_writer) >= 1
    /\ Len(run.ocr_result) < run.num_pages

Unexpected(h) == {k \in 1..Len(h) : h[k].raised /\ ~IsPdfOcrError(h[k].exc)}

DomainFailures(h) == SelectSeq(h, LAMBDA x : x.raised /\ IsPdfOcrError(x.exc))

\* C11: in process_batch an exception that is no PdfOcrError and leaves the
\* run of a document is not caught: it leaves process_batch as it is, the
\* document it came from is the last one run, the batch neither prints its
\* summary nor returns, and the recorded failures are the PdfOcrErrors only.
C11_UnexpectedPropagates ==
    batch.pc # "none" =>
        /\ \A k \in Unexpected(hist) :
              /\ k = Len(hist)
              /\ k = batch.idx
              /\ batch.pc \in {"wait", "raised"}
              /\ batch.pc = "wait" => run.pc = "raised"
              /\ batch.pc = "raised" => batch.exc = hist[k].exc /\ run = IdleRun
        /\ batch.pc = "wait" /\ run.pc = "raised" /\ ~IsPdfOcrError(run.result.exc)
              => Unexpected(hist) = {Len(hist)}
        /\ batch.pc \in {"loop", "returned"} =>
              /\ Unexpected(hist) = {}
              /\ batch.errors = [k \in 1..Len(DomainFailures(hist)) |->
                                    DomainFailures(hist)[k].exc.msg]
        /\ batch.pc = "raised" =>
              /\ Len(batch.errors) = Len(DomainFailures(hist))
              /\ Len(batch.output_paths) = Len(Succeeded(hist))

\* An OSError or a KeyboardInterrupt has left the second document of a longer
\* batch: process_batch has raised it, with a document still to run.
C11_Witness ==
    /\ batch.pc = "raised"
    /\ Unexpected(hist) # {}
    /\ Len(hist) >= 2
    /\ Len(hist) < Len(batch.input_paths)
    /\ batch.exc \in {KeyboardInterrupt, OsFault("permission denied ", hist[Len(hist)].input)}

BeforeWrite == {"mktemp", "open", "render", "ocr", "append"}

\* C14: process_file opens the output path for writing only after the
\* rasterization and the OCR of every page have completed: while these
\* stages run, and when a run has failed in one of them, the output path is
\* neither created nor modified, so that a file already there keeps its
\* previous content.
C14_OutputAfterOcr ==
    /\ run.pc \in BeforeWrite => OutputUntouched(run) /\ ~run.written
    /\ run.pc = "raised" /\ run.fault.stage \in {"rasterizer", "ocr"} =>
          /\ OutputUntouched(run)
          /\ ~run.written
    /\ run.pc # "none" /\ ~OutputUntouched(run) =>
          /\ Len(run.renders) = run.num_pages
          /\ Len(run.ocr_result) = run.num_pages

\* The OCR of the second page has failed in a run whose output path held a
\* file before: the file is still there, as it was.
C14_Witness ==
    /\ run.pc = "raised"
    /\ run.fault.stage = "ocr"
    /\ run.fault.page >= 1
    /\ run.output_path = OutOld
    /\ fs[OutOld] = FileNode(<<>>, "old")

Exited == top.caller = "main" /\ top.exit_code # NoExit

SingleFile == batch.pc = "none"

\* Every input document of the invocation has been converted.
FullSuccess ==
    /\ top.exc = NoExc
    /\ \A k \in 1..Len(hist) : ~hist[k].raised
    /\ IF SingleFile
       THEN Len(hist) = 1
       ELSE batch.pc = "returned" /\ Len(hist) = Len(batch.input_paths)

\* C12 as claimed: for one input and for several alike, the command line
\* exits with 0 exactly when every input document was converted, with 1 when
\* a domain error (a PdfOcrError) stopped a document or the invocation, with
\* 2 on a KeyboardInterrupt, and with 3 on any other exception.
C12_Original ==
    Exited =>
        /\ top.exit_code \in 0..3
        /\ top.exit_code = 0 <=> FullSuccess
        /\ top.exit_code = 2 <=> KeyboardInterrupt \in {top.exc} \cup {hist[k].exc : k \in 1..Len(hist)}
        /\ top.exit_code = 3 <=>
              \E k \in Unexpected(hist) : hist[k].exc # KeyboardInterrupt
        /\ top.exit_code = 1 <=>
              /\ Unexpected(hist) = {}
              /\ IsPdfOcrError(top.exc) \/ DomainFailures(hist) # <<>>

\* What main does keep: the exit code is the one of the exception that
\* reached main, and with a single input file that is the claimed code.
C12_SingleFileExitCodes ==
    Exited =>
        /\ top.exit_code = ExitCode(top.exc)
        /\ SingleFile => C12_Original

\* A batch of two documents, one of them missing, has exited with code 0.
C12_BatchFailureExitsZero ==
    /\ Exited
    /\ top.exit_code = 0
    /\ batch.input_paths = <<DocB, DocM>>
    /\ Len(batch.errors) = 1

InFlight == top.caller = "gui" /\ top.thread = "alive"

PipelineRunning == batch.pc \in {"verify", "loop", "wait"}

\* C13 as claimed: the graphical front-end runs the pipeline in the
\* processing thread, off the main loop, and only the main loop reads or
\* modifies a widget: no widget call is made from the processing thread,
\* the log lines printed by the pipeline included.
C13_Original ==
    /\ top.caller \in {"gui", "gui done"} /\ PipelineRunning => InFlight
    /\ \A c \in top.widget_calls : c.thread = "main"

\* What the front-end does keep: the pipeline runs only while the processing
\* thread is alive, and message boxes are shown by the main loop only.
C13_OffMainLoop ==
    /\ top.caller \in {"gui", "gui done"} /\ PipelineRunning => InFlight
    /\ \A c \in top.widget_calls : c.widget # "log_text" => c.thread = "main"

\* A run is in flight and the processing thread has written the log widget.
C13_WorkerWritesLog ==
    /\ InFlight
    /\ run.pc = "ocr"
    /\ WidgetCall("worker", "log_text") \in top.widget_calls

====
